---- MODULE Spec2Model ----
(***************************************************************************)
(* Model of the EWS transport client of go-ews: client.Do, client.Request  *)
(* and the process-wide buffer pool (bufPool, getBuffer, releaseBuffer).   *)
(*                                                                         *)
(* Each call of Do/Request is a goroutine that walks through the           *)
(* statements of the two methods.  The Request objects, the buffer pool    *)
(* and the buffers are shared between the goroutines.  The net/http        *)
(* transport reads the request body (the pooled buffer) in a goroutine of  *)
(* its own, which may outlive the call of http.Client.Do.                  *)
(* Do is modelled as the first half of Request, which calls it.            *)
(***************************************************************************)
EXTENDS Integers, Sequences, FiniteSets

\* ------------------------------------------------------------------ bounds
NumCalls == 2            \* goroutines calling Do/Request

\* --------------------------------------------------------------- constants
StatusOK == 200          \* http.StatusOK

Calls == 1..NumCalls
BufIds == 1..NumCalls    \* bufPool.New makes a buffer whenever the pool is empty
Clients == {"c1", "c2"}
Requests == {"r1", "r2"}

NoHead == "nil"          \* req.head == nil
NoVersion == ""          \* new(ewsxml.Header): zero value
CallerVersion == "Exchange2007_SP1"  \* a version put in the header by the caller
NoBuf == 0
OutInit == <<"old">>     \* the content of out before the call

\* NewClient: the version the client is configured with (c.ver)
Ver(cl) == IF cl = "c1" THEN "Exchange2010" ELSE "Exchange2013_SP1"

\* the statuses http.Client takes for a redirect to follow
IsRedirect(status) == status \in {301, 302, 303, 307, 308}

\* CheckRedirect returning nil: the redirect is followed
CheckRedirectFollow(status) == "nil"

\* NewClient: CheckRedirect always returns http.ErrUseLastResponse
CheckRedirect(status) == "ErrUseLastResponse"

\* the payload a Request serializes into the body of the envelope
Payload(r) == IF r = "r1" THEN "GetPersona" ELSE "FindItem"

\* ----------------------------------------------------------------- errors
\* an error value: its kind, its cause, what a RequestError carries, and the
\* causes of the errors appended to it
Nil == [kind |-> "nil", cause |-> "nil", status |-> 0, body |-> <<>>, more |-> <<>>]

Err(cause) == [kind |-> "", cause |-> cause, status |-> 0, body |-> <<>>, more |-> <<>>]

\* errors.Append(&err, e): e when err is nil, else err with e added to it
AppendErr(e, f) == IF e = Nil THEN f ELSE [e EXCEPT !.more = Append(@, f.cause)]

\* the error is, or has had appended to it, an error of this cause
Includes(e, cause) == e.cause = cause \/ \E i \in 1..Len(e.more) : e.more[i] = cause

\* errors.WithStack keeps the error, nil stays nil
WithStack(e) == e

\* WithKind without the test for nil
WithKindAlways(e, kind) == [e EXCEPT !.kind = kind]

\* errors.WithKind: nil stays nil, otherwise the error is wrapped with kind
WithKind(e, kind) == IF e = Nil THEN Nil ELSE [e EXCEPT !.kind = kind]

\* NewError(resp): a RequestError with the status and what resp.Body yields
NewError(resp) ==
  [kind |-> "RequestError", cause |-> "status", status |-> resp.status,
   body |-> resp.body, more |-> <<>>]

\* ------------------------------------------------------------------ codec
\* Request.WriteBody: the envelope written to the buffer
Envelope(head, payload) == <<"soapStart", head, "soapBodyStart", payload, "soapEnd">>

\* what WriteBody has written when marshalling the payload fails
EnvelopeStart(head) == <<"soapStart", head, "soapBodyStart">>

\* the header versions an envelope carries
HeaderVersions(env) ==
  IF Len(env) >= 3 /\ env[1] = "soapStart"
  THEN LET i == CHOOSE k \in 2..Len(env) :
                  env[k] = "soapBodyStart" /\ \A j \in 2..(k-1) : env[j] # "soapBodyStart"
       IN SubSeq(env, 2, i - 1)
  ELSE <<>>

\* the server's side: an envelope around an inner payload
Wrap(inner) == <<"<Envelope>">> \o inner \o <<"</Envelope>">>

\* an XML fragment the parser reads to its end: empty, or one closed element
WellFormed(xs) == xs = <<>> \/ (Len(xs) >= 2 /\ xs[1] = "<r>" /\ xs[Len(xs)] = "</r>")

\* xml.Unmarshal(data, &x) for ewsxml.ResponseEnvelope: the parser reads the
\* whole document and Body.Response is the inner XML as it stands in data
OuterDecode(data) ==
  IF Len(data) >= 2 /\ data[1] = "<Envelope>" /\ data[Len(data)] = "</Envelope>"
     /\ WellFormed(SubSeq(data, 2, Len(data) - 1))
  THEN [ok |-> TRUE, inner |-> SubSeq(data, 2, Len(data) - 1)]
  ELSE [ok |-> FALSE, inner |-> <<>>]

\* xml.Unmarshal(x.Body.Response, out): the decoder sets the fields of out as
\* it reads them and returns at the first value it cannot convert
InnerDecode(inner, o) ==
  IF inner = <<>> \/ ~WellFormed(inner)
  THEN [ok |-> FALSE, out |-> o]
  ELSE LET fields == SubSeq(inner, 2, Len(inner) - 1)
           bad == {k \in 1..Len(fields) : fields[k] = "bad"}
       IN IF bad = {}
          THEN [ok |-> TRUE, out |-> fields]
          ELSE LET e == CHOOSE k \in bad : \A j \in bad : k <= j
               IN [ok |-> FALSE, out |-> IF e = 1 THEN o ELSE SubSeq(fields, 1, e - 1)]

\* ------------------------------------------------------- the server's side
Inners == {<<"<r>", "v", "</r>">>, <<"<r>", "v", "bad", "</r>">>, <<"<r>", "v">>}
\* a response of the server: the status, the body still to be read from
\* resp.Body, the body as the server sent it and the inner payload it wrapped
Response(s, b, i) == [status |-> s, body |-> b, sent |-> b, inner |-> i]

Responses ==
  {Response(StatusOK, Wrap(i), i) : i \in Inners}
    \cup {Response(500, <<"Internal error">>, <<>>),
          Response(302, Wrap(<<"<r>", "v", "</r>">>), <<"<r>", "v", "</r>">>)}

NoResp == [status |-> 0, body |-> <<>>, sent |-> <<>>, inner |-> <<>>]

\* ------------------------------------------------------------------ state
VARIABLES
  reqHead,      \* Request.head of every Request: NoHead, or the header's version
  pool,         \* bufPool: the buffers put back and not taken again
  allocated,    \* the buffers bufPool.New has made
  bufs,         \* the unread content of every bytes.Buffer
  pc,           \* the statement every call is at
  cl,           \* the client the call is made on
  rq,           \* the *Request passed to the call
  raw,          \* out is a *[]byte
  hdrNil,       \* Do found req.head == nil
  buf,          \* Do's buf
  handed,       \* buf.Bytes() as logged and handed to c.http.Do
  posts,        \* the HTTP exchanges made for the call
  rdBuf,        \* the buffer the transport is still to read as the call's body
  resp,         \* the *http.Response
  data,         \* Request's data
  err,          \* Request's local err, the errors appended to it
  ret,          \* the error the call returns
  out,          \* what out points to
  closeFailed   \* resp.Body.Close returned an error

shared == <<reqHead, pool, allocated, bufs>>
doVars == <<hdrNil, buf, handed, posts>>
inVars == <<cl, rq>>
reqVars == <<raw, resp, data, err, ret, out, closeFailed>>
vars == <<shared, pc, inVars, doVars, rdBuf, reqVars>>

\* one Request without a header and one with a header the caller has set
Init ==
  /\ reqHead = [r \in Requests |-> IF r = "r1" THEN NoHead ELSE CallerVersion]
  /\ pool = {}
  /\ allocated = {}
  /\ bufs = [b \in BufIds |-> <<>>]
  /\ pc = [c \in Calls |-> "idle"]
  /\ cl = [c \in Calls |-> "c1"]
  /\ rq = [c \in Calls |-> "r1"]
  /\ raw = [c \in Calls |-> FALSE]
  /\ hdrNil = [c \in Calls |-> FALSE]
  /\ buf = [c \in Calls |-> NoBuf]
  /\ handed = [c \in Calls |-> <<>>]
  /\ posts = [c \in Calls |-> 0]
  /\ rdBuf = [c \in Calls |-> NoBuf]
  /\ resp = [c \in Calls |-> NoResp]
  /\ data = [c \in Calls |-> <<>>]
  /\ err = [c \in Calls |-> Nil]
  /\ ret = [c \in Calls |-> Nil]
  /\ out = [c \in Calls |-> OutInit]
  /\ closeFailed = [c \in Calls |-> FALSE]

\* ------------------------------------------------------------- client.Do
\* a goroutine calls c.Request(req, out), which calls c.Do(req)
Start(c) ==
  /\ pc[c] = "idle"
  /\ \E k \in Clients, r \in Requests :
       /\ cl' = [cl EXCEPT ![c] = k]
       /\ rq' = [rq EXCEPT ![c] = r]
  /\ pc' = [pc EXCEPT ![c] = "chk"]
  /\ UNCHANGED <<shared, doVars, rdBuf, reqVars>>

\* if req.head == nil
CheckHead(c) ==
  /\ pc[c] = "chk"
  /\ hdrNil' = [hdrNil EXCEPT ![c] = (reqHead[rq[c]] = NoHead)]
  /\ pc' = [pc EXCEPT ![c] = IF reqHead[rq[c]] = NoHead THEN "new" ELSE "setver"]
  /\ UNCHANGED <<shared, inVars, buf, handed, posts, rdBuf, reqVars>>

\* req.head = new(ewsxml.Header)
NewHead(c) ==
  /\ pc[c] = "new"
  /\ reqHead' = [reqHead EXCEPT ![rq[c]] = NoVersion]
  /\ pc' = [pc EXCEPT ![c] = "setver"]
  /\ UNCHANGED <<pool, allocated, bufs, inVars, doVars, rdBuf, reqVars>>

\* req.head.SetVersion(c.ver)
SetVersion(c) ==
  /\ pc[c] = "setver"
  /\ reqHead' = [reqHead EXCEPT ![rq[c]] = Ver(cl[c])]
  /\ pc' = [pc EXCEPT ![c] = "getbuf"]
  /\ UNCHANGED <<pool, allocated, bufs, inVars, doVars, rdBuf, reqVars>>

\* buf := getBuffer(): a buffer of the pool, or a new one
getBuffer(c) ==
  /\ pc[c] = "getbuf"
  /\ \E b \in BufIds :
       /\ \/ b \in pool /\ pool' = pool \ {b} /\ UNCHANGED allocated
          \/ /\ b \notin allocated
             /\ \A b2 \in BufIds \ allocated : b <= b2
             /\ allocated' = allocated \cup {b}
             /\ UNCHANGED pool
       /\ buf' = [buf EXCEPT ![c] = b]
  /\ pc' = [pc EXCEPT ![c] = "write"]
  /\ UNCHANGED <<reqHead, bufs, inVars, hdrNil, handed, posts, rdBuf, reqVars>>

\* req.WriteBody(buf) and its error return
WriteBody(c) ==
  /\ pc[c] = "write"
  /\ \E fail \in BOOLEAN :
       IF fail
       THEN /\ bufs' = [bufs EXCEPT ![buf[c]] = @ \o EnvelopeStart(reqHead[rq[c]])]
            /\ ret' = [ret EXCEPT ![c] = Err("marshal")]
            /\ pc' = [pc EXCEPT ![c] = "release"]
       ELSE /\ bufs' = [bufs EXCEPT ![buf[c]] = @ \o Envelope(reqHead[rq[c]], Payload(rq[c]))]
            /\ ret' = ret
            /\ pc' = [pc EXCEPT ![c] = "send"]
  /\ UNCHANGED <<reqHead, pool, allocated, inVars, doVars, rdBuf,
                 raw, resp, data, err, out, closeFailed>>

\* http.NewRequestWithContext, c.log.HttpRequest and the call of c.http.Do,
\* which has the transport read the buffer as the body of the request
Send(c) ==
  /\ pc[c] = "send"
  /\ \E fail \in BOOLEAN :
       IF fail
       THEN /\ ret' = [ret EXCEPT ![c] = WithStack(Err("newrequest"))]
            /\ pc' = [pc EXCEPT ![c] = "release"]
            /\ UNCHANGED <<handed, posts, rdBuf>>
       ELSE /\ handed' = [handed EXCEPT ![c] = bufs[buf[c]]]
            /\ posts' = [posts EXCEPT ![c] = @ + 1]
            /\ rdBuf' = [rdBuf EXCEPT ![c] = buf[c]]
            /\ pc' = [pc EXCEPT ![c] = "wait"]
            /\ ret' = ret
  /\ UNCHANGED <<shared, inVars, hdrNil, buf, raw, resp, data, err, out, closeFailed>>

\* the transport's write loop reads the body of the http.Request
TransportRead(c) ==
  /\ rdBuf[c] # NoBuf
  /\ bufs' = [bufs EXCEPT ![rdBuf[c]] = <<>>]
  /\ rdBuf' = [rdBuf EXCEPT ![c] = NoBuf]
  /\ UNCHANGED <<reqHead, pool, allocated, pc, inVars, doVars, reqVars>>

\* the exchange has ended and the connection is gone before the write loop
\* reads the body
TransportAbandon(c) ==
  /\ rdBuf[c] # NoBuf
  /\ pc[c] # "wait"
  /\ rdBuf' = [rdBuf EXCEPT ![c] = NoBuf]
  /\ UNCHANGED <<shared, pc, inVars, doVars, reqVars>>

\* c.http.Do returns: an error, or the response (a redirect is looked at by
\* CheckRedirect and followed unless it says ErrUseLastResponse)
Receive(c) ==
  /\ pc[c] = "wait"
  /\ \/ /\ ret' = [ret EXCEPT ![c] = Err("transport")]
        /\ pc' = [pc EXCEPT ![c] = "release"]
        /\ UNCHANGED <<resp, posts>>
     \/ \E r \in Responses :
          IF IsRedirect(r.status) /\ CheckRedirect(r.status) # "ErrUseLastResponse"
          THEN /\ posts' = [posts EXCEPT ![c] = @ + 1]
               /\ UNCHANGED <<resp, ret, pc>>
          ELSE /\ resp' = [resp EXCEPT ![c] = r]
               /\ pc' = [pc EXCEPT ![c] = "release"]
               /\ UNCHANGED <<ret, posts>>
  /\ UNCHANGED <<shared, inVars, hdrNil, buf, handed, rdBuf, raw, data, err, out, closeFailed>>

\* defer releaseBuffer(buf): b.Reset(), bufPool.Put(b); Do returns, its
\* locals are gone, and Request returns Do's error
releaseBuffer(c) ==
  /\ pc[c] = "release"
  /\ bufs' = [bufs EXCEPT ![buf[c]] = <<>>]
  /\ pool' = pool \cup {buf[c]}
  /\ buf' = [buf EXCEPT ![c] = NoBuf]
  /\ handed' = [handed EXCEPT ![c] = <<>>]
  /\ hdrNil' = [hdrNil EXCEPT ![c] = FALSE]
  /\ pc' = [pc EXCEPT ![c] = IF ret[c] # Nil THEN "done" ELSE "read"]
  /\ UNCHANGED <<reqHead, allocated, inVars, posts, rdBuf, reqVars>>

\* --------------------------------------------------------- client.Request
\* Decode taking every status below 500 for a success
DecodeServerErrorsOnly(r, d, w, o) ==
  IF r.status >= 500
  THEN [ret |-> NewError(r), out |-> o, err |-> Nil]
  ELSE LET x == OuterDecode(d)
       IN IF ~x.ok
          THEN [ret |-> WithKind(Err("xml"), "UnmarshalError"), out |-> o, err |-> Err("xml")]
          ELSE IF w
               THEN [ret |-> Nil, out |-> x.inner, err |-> Nil]
               ELSE LET i == InnerDecode(x.inner, o)
                    IN [ret |-> WithKind(IF i.ok THEN Nil ELSE Err("xml"), "UnmarshalError"),
                        out |-> i.out, err |-> Nil]

\* Decode running the inner decode for a *[]byte out as well
DecodeRawDecoded(r, d, w, o) ==
  IF r.status # StatusOK
  THEN [ret |-> NewError(r), out |-> o, err |-> Nil]
  ELSE LET x == OuterDecode(d)
       IN IF ~x.ok
          THEN [ret |-> WithKind(Err("xml"), "UnmarshalError"), out |-> o, err |-> Err("xml")]
          ELSE LET i == InnerDecode(x.inner, o)
               IN [ret |-> IF w THEN Nil
                           ELSE WithKind(IF i.ok THEN Nil ELSE Err("xml"), "UnmarshalError"),
                   out |-> i.out, err |-> Nil]

\* Request after ReadAll: the status check, the two decodes and the value
\* of the return statement; err is the local err after it
Decode(r, d, w, o) ==
  IF r.status # StatusOK
  THEN [ret |-> NewError(r), out |-> o, err |-> Nil]
  ELSE LET x == OuterDecode(d)
       IN IF ~x.ok
          THEN [ret |-> WithKind(Err("xml"), "UnmarshalError"), out |-> o, err |-> Err("xml")]
          ELSE IF w
               THEN [ret |-> Nil, out |-> x.inner, err |-> Nil]
               ELSE LET i == InnerDecode(x.inner, o)
                    IN [ret |-> WithKind(IF i.ok THEN Nil ELSE Err("xml"), "UnmarshalError"),
                        out |-> i.out, err |-> Nil]

\* data, err := ioutil.ReadAll(resp.Body)
ReadAll(c) ==
  /\ pc[c] = "read"
  /\ \E fail \in BOOLEAN :
       IF fail
       THEN /\ err' = [err EXCEPT ![c] = Err("read")]
            /\ ret' = [ret EXCEPT ![c] = WithStack(Err("read"))]
            /\ pc' = [pc EXCEPT ![c] = "close"]
            /\ UNCHANGED <<data, resp>>
       ELSE /\ data' = [data EXCEPT ![c] = resp[c].body]
            /\ resp' = [resp EXCEPT ![c].body = <<>>]
            /\ pc' = [pc EXCEPT ![c] = "process"]
            /\ UNCHANGED <<err, ret>>
  /\ UNCHANGED <<shared, inVars, doVars, rdBuf, raw, out, closeFailed>>

\* from c.log.HttpResponse to the return statement; out is a *[]byte or a
\* value to decode into
Process(c) ==
  /\ pc[c] = "process"
  /\ \E w \in BOOLEAN :
       LET res == Decode(resp[c], data[c], w, out[c])
       IN /\ raw' = [raw EXCEPT ![c] = w]
          /\ ret' = [ret EXCEPT ![c] = res.ret]
          /\ out' = [out EXCEPT ![c] = res.out]
          /\ err' = [err EXCEPT ![c] = res.err]
  /\ pc' = [pc EXCEPT ![c] = "close"]
  /\ UNCHANGED <<shared, inVars, doVars, rdBuf, resp, data, closeFailed>>

\* defer errors.AppendFunc(&err, resp.Body.Close): runs after the return
\* statement has set the result, and appends to the local err
Close(c) ==
  /\ pc[c] = "close"
  /\ \E fail \in BOOLEAN :
       /\ closeFailed' = [closeFailed EXCEPT ![c] = fail]
       /\ err' = [err EXCEPT ![c] = IF fail THEN AppendErr(@, Err("close")) ELSE @]
  /\ pc' = [pc EXCEPT ![c] = "done"]
  /\ UNCHANGED <<shared, inVars, doVars, rdBuf, raw, resp, data, ret, out>>

\* ------------------------------------------------------------------- spec
Next ==
  \E c \in Calls :
    \/ Start(c)
    \/ CheckHead(c)
    \/ NewHead(c)
    \/ SetVersion(c)
    \/ getBuffer(c)
    \/ WriteBody(c)
    \/ Send(c)
    \/ TransportRead(c)
    \/ TransportAbandon(c)
    \/ Receive(c)
    \/ releaseBuffer(c)
    \/ ReadAll(c)
    \/ Process(c)
    \/ Close(c)

Spec == Init /\ [][Next]_vars

\* ----------------------------------------------------------------- claims
\* c.http.Do has been called for the call and Do has not returned yet
Handed(c) == pc[c] \in {"wait", "release"} /\ posts[c] >= 1

\* Request's return statement has been executed
Returned(c) == pc[c] \in {"close", "done"}

\* ioutil.ReadAll has read resp.Body to its end
BodyRead(c) == resp[c].status # 0 /\ resp[c].body = <<>>

\* the server sent an envelope the XML parser accepts
EnvelopeSent(c) == resp[c].sent = Wrap(resp[c].inner) /\ WellFormed(resp[c].inner)

\* the inner payload has a value for every field of out
Decodable(inner) ==
  /\ inner # <<>>
  /\ WellFormed(inner)
  /\ \A k \in 1..Len(inner) : inner[k] # "bad"

\* C1: a request whose header is nil goes out in an envelope that carries
\* exactly one header version, the version of the client that sends it
C1_NilHeaderGetsClientVersion ==
  \A c \in Calls :
    (Handed(c) /\ hdrNil[c]) => HeaderVersions(handed[c]) = <<Ver(cl[c])>>

\* C2 as amended: a response whose status is not 200 OK leaves out as it was
\* and nothing is decoded; Request returns a RequestError when it has read
\* the body, and the read error when reading the body failed
C2_NonOKReadIsRequestError ==
  \A c \in Calls :
    (Returned(c) /\ resp[c].status \notin {0, StatusOK}) =>
      /\ out[c] = OutInit
      /\ ~Includes(err[c], "xml")
      /\ BodyRead(c) => ret[c].kind = "RequestError"
      /\ ~BodyRead(c) => ret[c] = Err("read")

C2_Witness ==
  \E c \in Calls :
    /\ pc[c] = "done" /\ IsRedirect(resp[c].status) /\ raw[c]
    /\ resp[c].sent = Wrap(<<"<r>", "v", "</r>">>)
    /\ ret[c].kind = "RequestError" /\ out[c] = OutInit

\* C2 as stated: every response whose status is not 200 OK makes Request
\* return a RequestError and leaves out as it was
C2_NonOKIsRequestError ==
  \A c \in Calls :
    (Returned(c) /\ resp[c].status \notin {0, StatusOK}) =>
      ret[c].kind = "RequestError" /\ out[c] = OutInit

\* C3: when closing the response body fails, the error Request returns
\* includes the close failure
C3_CloseErrorReturned ==
  \A c \in Calls :
    (pc[c] = "done" /\ closeFailed[c]) => Includes(ret[c], "close")

\* C4: the RequestError of a response that is not 200 OK carries the status
\* and the body as the server sent it
C4_RequestErrorCarriesBody ==
  \A c \in Calls :
    (Returned(c) /\ ret[c].kind = "RequestError") =>
      ret[c].status = resp[c].status /\ ret[c].body = resp[c].sent

\* C5: a buffer in the pool is empty, a call that is past Do holds no buffer,
\* and the buffer a call holds is neither held by another call nor still
\* read by the transport as the body of another call
C5_BufferNotShared ==
  /\ \A b \in pool : bufs[b] = <<>>
  /\ \A c \in Calls : pc[c] \in {"read", "process", "close", "done"} => buf[c] = NoBuf
  /\ \A c, d \in Calls :
       (c # d /\ buf[c] # NoBuf) => (buf[d] # buf[c] /\ rdBuf[d] # buf[c])

\* C6: for 200 OK, an envelope that decodes and a *[]byte out, Request sets
\* out to the inner payload as the server sent it and returns nil, also when
\* the inner payload cannot be decoded
C6_RawBytesVerbatim ==
  \A c \in Calls :
    (pc[c] = "done" /\ BodyRead(c) /\ resp[c].status = StatusOK /\ EnvelopeSent(c) /\ raw[c])
      => out[c] = resp[c].inner /\ ret[c] = Nil

C6_Witness ==
  \E c \in Calls :
    /\ pc[c] = "done" /\ raw[c] /\ resp[c].status = StatusOK
    /\ resp[c].inner = <<"<r>", "v", "bad", "</r>">>
    /\ out[c] = <<"<r>", "v", "bad", "</r>">> /\ ret[c] = Nil

\* C7: for 200 OK, Request returns an UnmarshalError around the decode error
\* if and only if the envelope does not decode, or out is not a *[]byte and
\* the inner payload does not decode; when both decode it returns nil
C7_UnmarshalErrorIff ==
  \A c \in Calls :
    (pc[c] = "done" /\ resp[c].status = StatusOK) =>
      LET failed == \/ ~EnvelopeSent(c)
                    \/ ~raw[c] /\ ~Decodable(resp[c].inner)
      IN /\ ret[c].kind = "UnmarshalError" <=> (BodyRead(c) /\ failed)
         /\ ret[c].kind = "UnmarshalError" => ret[c].cause = "xml"
         /\ (BodyRead(c) /\ ~failed) => ret[c] = Nil

C7_Witness ==
  /\ \E c \in Calls :
       /\ pc[c] = "done" /\ resp[c].status = StatusOK /\ ~raw[c]
       /\ resp[c].inner = <<"<r>", "v", "bad", "</r>">>
       /\ ret[c].kind = "UnmarshalError"
  /\ \E c \in Calls :
       /\ pc[c] = "done" /\ resp[c].status = StatusOK /\ ~raw[c]
       /\ resp[c].inner = <<"<r>", "v", "</r>">>
       /\ out[c] = <<"v">> /\ ret[c] = Nil

\* C8: a call makes at most one HTTP exchange, none when serializing or
\* building the request fails and exactly one otherwise; an attempt that
\* fails is not made again and a redirect is not followed
C8_OneExchange ==
  \A c \in Calls :
    /\ posts[c] <= 1
    /\ pc[c] \in {"wait", "read", "process", "close"} => posts[c] = 1
    /\ pc[c] \in {"release", "done"} =>
         posts[c] = (IF ret[c].cause \in {"marshal", "newrequest"} THEN 0 ELSE 1)

C8_Witness ==
  /\ \E c \in Calls : pc[c] = "done" /\ IsRedirect(resp[c].status) /\ posts[c] = 1
  /\ \E c \in Calls : pc[c] = "done" /\ ret[c].cause = "transport" /\ posts[c] = 1

\* C9: Request returns nil with out populated from the response, or an error
\* with out as it was before the call
C9_AllOrNothing ==
  \A c \in Calls :
    pc[c] = "done" =>
      \/ /\ ret[c] = Nil
         /\ out[c] = IF raw[c] THEN resp[c].inner
                     ELSE SubSeq(resp[c].inner, 2, Len(resp[c].inner) - 1)
      \/ ret[c] # Nil /\ out[c] = OutInit

\* C10: a header the caller has set gets the version of the client, which
\* stays on the Request, and the request goes out with the version of the
\* client that sends it
C10_CallerHeaderOverwritten ==
  \A c \in Calls :
    (Handed(c) /\ ~hdrNil[c]) =>
      /\ reqHead[rq[c]] \in {Ver(k) : k \in Clients}
      /\ HeaderVersions(handed[c]) = <<Ver(cl[c])>>

====
